---- MODULE Spec2Model ----
(***************************************************************************)
(* Daycare planner (src/daycare_planner.py): main() loads the environment, *)
(* fetches the sheet rows, opens one SMTP session, and for every row       *)
(* builds an iCalendar invite and mails it.                                *)
(*                                                                         *)
(* Strings that the code takes apart (the date column) are modelled as     *)
(* records of their tokens; strings the code only compares or copies       *)
(* (names, addresses) are TLA+ strings.  Python's None is the value None.  *)
(***************************************************************************)
EXTENDS Integers, Sequences, FiniteSets, TLC

VARIABLES
    environ,        \* os.environ as read by main()
    pc,             \* position of main()
    user_email,     \* main(): user_email
    email_map,      \* main(): email_map
    records,        \* main(): records
    smtp_client,    \* the SMTP session: "none", "open", "closed"
    idx,            \* 1-based position of `row` in `records`
    ics_content,    \* main(): ics_content of the current row
    recipients,     \* main(): recipients of the current row
    exc,            \* the exception that left main(), "" while there is none
    built,          \* history: rows for which build_ics_event returned
    attempts,       \* history: every smtp_client.sendmail call
    log             \* history: every print

vars == <<environ, pc, user_email, email_map, records, smtp_client, idx,
          ics_content, recipients, exc, built, attempts, log>>

\* ------------------------------------------------------------------ bounds
MaxRows == 3

\* ------------------------------------------------------------ Python values
None == "<None>"

\* Python truthiness of an optional string: `if x:`
Truthy(x) == x # None /\ x # ""

\* ------------------------------------------------------------------- dates
\* A date cell is a record [form, a, b, c]:
\*   "absent"      the key is missing (row.get gives None)
\*   "empty"       ""
\*   "blank"       " "
\*   "text"        "not-a-date"
\*   "numeric"     three numbers a, b, c separated by "/" or "-"
\*   "month_name"  an English month name (number a), then day b, then year c
DateCell(form, a, b, c) == [form |-> form, a |-> a, b |-> b, c |-> c]

MAXYEAR == 9999

IsLeap(y) == (y % 4 = 0 /\ y % 100 # 0) \/ y % 400 = 0

DaysInMonth(y, m) ==
    IF m = 2 THEN (IF IsLeap(y) THEN 29 ELSE 28)
    ELSE IF m \in {4, 6, 9, 11} THEN 30 ELSE 31

\* datetime's constructor check
ValidDate(y, m, d) ==
    /\ y >= 1 /\ y <= MAXYEAR
    /\ m >= 1 /\ m <= 12
    /\ d >= 1 /\ d <= DaysInMonth(y, m)

Date(y, m, d) == [year |-> y, month |-> m, day |-> d]

\* dateutil's resolution of three numeric tokens with dayfirst=True,
\* yearfirst=False.  A token of more than two digits is marked as the year;
\* every cell of the model is written with a four-digit year.
ResolveNumeric(a, b, c) ==
    IF a > 31
    THEN IF c <= 12 THEN Date(a, c, b) ELSE Date(a, b, c)
    ELSE IF a > 12 \/ b <= 12 THEN Date(c, b, a) ELSE Date(c, a, b)

\* parse_date: [ok |-> TRUE, date |-> d] or [ok |-> FALSE] (ValueError)
parse_date(date_str) ==
    LET r == IF date_str.form = "numeric"
             THEN ResolveNumeric(date_str.a, date_str.b, date_str.c)
             ELSE Date(date_str.c, date_str.a, date_str.b)
    IN  IF date_str.form \in {"numeric", "month_name"}
           /\ ValidDate(r.year, r.month, r.day)
        THEN [ok |-> TRUE, date |-> r]
        ELSE [ok |-> FALSE, date |-> Date(0, 0, 0)]

\* AddOneDay without the step into the next year
AddOneDayNoYearRollover(dt) ==
    IF dt.day < DaysInMonth(dt.year, dt.month)
    THEN Date(dt.year, dt.month, dt.day + 1)
    ELSE Date(dt.year, dt.month + 1, 1)

\* date + timedelta(days=1); the result may lie past MAXYEAR (OverflowError)
AddOneDay(dt) ==
    IF dt.day < DaysInMonth(dt.year, dt.month)
    THEN Date(dt.year, dt.month, dt.day + 1)
    ELSE IF dt.month < 12
         THEN Date(dt.year, dt.month + 1, 1)
         ELSE Date(dt.year + 1, 1, 1)

\* strftime("%Y%m%d"), the eight digits read as a number
strftime(dt) == dt.year * 10000 + dt.month * 100 + dt.day

\* ------------------------------------------------------------------ invite
\* Attendees without the comparison of line 211
AttendeesNoDedup(babysitter, user) ==
    (IF Truthy(babysitter) THEN <<babysitter>> ELSE <<>>)
    \o (IF Truthy(user) THEN <<user>> ELSE <<>>)

\* Lines 207-212: the ATTENDEE lines, in the order they are appended
Attendees(babysitter, user) ==
    (IF Truthy(babysitter) THEN <<babysitter>> ELSE <<>>)
    \o (IF Truthy(user) /\ user # babysitter
        THEN <<user>> ELSE <<>>)

\* build_ics_event: the invite, or the exception it raises
build_ics_event(date_str, oppas_name, organizer_email, babysitter, user) ==
    LET parsed   == parse_date(date_str)
        end_date == AddOneDay(parsed.date)
        raised   == IF ~parsed.ok THEN "ValueError"
                    ELSE IF end_date.year > MAXYEAR THEN "OverflowError"
                    ELSE ""
    IN  [raised    |-> raised,
         DTSTART   |-> IF raised = "" THEN strftime(parsed.date) ELSE 0,
         DTEND     |-> IF raised = "" THEN strftime(end_date) ELSE 0,
         SUMMARY   |-> oppas_name,
         ORGANIZER |-> organizer_email,
         ATTENDEE  |-> IF raised = "" THEN Attendees(babysitter, user)
                       ELSE <<>>]

NoEvent ==
    [raised |-> "", DTSTART |-> 0, DTEND |-> 0, SUMMARY |-> None,
     ORGANIZER |-> None, ATTENDEE |-> <<>>]

\* Recipients without the truthiness test of line 274
RecipientsAlwaysUser(babysitter, user) ==
    LET first == IF Truthy(babysitter) THEN <<babysitter>> ELSE <<>>
    IN  IF \A i \in 1..Len(first) : first[i] # user
        THEN Append(first, user)
        ELSE first

\* Recipients without the membership test of line 274
RecipientsNoDedup(babysitter, user) ==
    LET first == IF Truthy(babysitter) THEN <<babysitter>> ELSE <<>>
    IN  IF Truthy(user) THEN Append(first, user) ELSE first

\* Lines 271-275: the envelope recipients
Recipients(babysitter, user) ==
    LET first == IF Truthy(babysitter) THEN <<babysitter>> ELSE <<>>
    IN  IF Truthy(user) /\ \A i \in 1..Len(first) : first[i] # user
        THEN Append(first, user)
        ELSE first

\* ----------------------------------------------------------- configuration
OpaPiet == "Opa Piet"
OmaLisa == "Oma Lisa"
OpaMail == "opa.piet@example.com"
MeMail  == "me@example.com"
Sender  == "planner@example.com"

\* EMAIL_MAP as written in the environment: unset, not JSON, or a JSON object
EmailMapTexts ==
    { [kind |-> "unset",   obj |-> <<>>],
      [kind |-> "invalid", obj |-> <<>>],
      [kind |-> "object",  obj |-> (OpaPiet :> OpaMail)],
      [kind |-> "object",  obj |-> (OpaPiet :> OpaMail) @@ (OmaLisa :> "")] }

Environments ==
    [CSV_URL       : {None, "", "https://sheet/export?format=csv"},
     USER_EMAIL    : {None, "", MeMail, OpaMail},
     EMAIL_MAP     : EmailMapTexts,
     SMTP_USERNAME : {None, Sender},
     SMTP_PASSWORD : {None, "", "app-password"}]

\* ConfigError without the password test of line 244
ConfigErrorIgnoresPassword(env) ==
    IF ~Truthy(env.CSV_URL) THEN "EnvironmentError"
    ELSE IF env.EMAIL_MAP.kind = "invalid" THEN "ValueError"
    ELSE IF ~Truthy(env.SMTP_USERNAME) THEN "EnvironmentError"
    ELSE ""

\* Lines 229, 234-237, 244: the exception configuration loading raises, or ""
ConfigError(env) ==
    IF ~Truthy(env.CSV_URL) THEN "EnvironmentError"
    ELSE IF env.EMAIL_MAP.kind = "invalid" THEN "ValueError"
    ELSE IF ~Truthy(env.SMTP_USERNAME) \/ ~Truthy(env.SMTP_PASSWORD)
         THEN "EnvironmentError"
    ELSE ""

\* json.loads(os.environ.get('EMAIL_MAP', '{}'))
LoadEmailMap(env) ==
    IF env.EMAIL_MAP.kind = "object" THEN env.EMAIL_MAP.obj ELSE <<>>

\* dict.get(key): None when the key is absent
DictGet(d, key) == IF key \in DOMAIN d THEN d[key] ELSE None

\* -------------------------------------------------------------------- rows
Row(datum, oppas) == [Datum |-> datum, Oppas |-> oppas]

Absent     == DateCell("absent", 0, 0, 0)
Empty      == DateCell("empty", 0, 0, 0)
NotADate   == DateCell("text", 0, 0, 0)
Slash24Mar == DateCell("numeric", 24, 3, 2025)
Iso31Dec9999 == DateCell("numeric", 9999, 12, 31)

\* The rows a fetched sheet is made of
SheetRows ==
    { Row(Absent, OpaPiet), Row(Empty, OmaLisa),
      Row(Slash24Mar, None), Row(Slash24Mar, ""),
      Row(Slash24Mar, OpaPiet), Row(Slash24Mar, OmaLisa),
      Row(NotADate, OpaPiet), Row(Iso31Dec9999, OmaLisa) }

Sheets == UNION { [1..n -> SheetRows] : n \in 0..MaxRows }

\* MissingRequired without the name test of line 256
MissingRequiredDateOnly(row) ==
    row.Datum.form \in {"absent", "empty"}

\* Line 256: `not date_str or not oppas_name`
MissingRequired(row) ==
    row.Datum.form \in {"absent", "empty"} \/ ~Truthy(row.Oppas)

\* ------------------------------------------------------------------ main()
Init ==
    /\ environ \in Environments
    /\ pc = "LOADING_CONFIG"
    /\ user_email = None
    /\ email_map = <<>>
    /\ records = <<>>
    /\ smtp_client = "none"
    /\ idx = 0
    /\ ics_content = NoEvent
    /\ recipients = <<>>
    /\ exc = ""
    /\ built = <<>>
    /\ attempts = <<>>
    /\ log = <<>>

\* Lines 228-245
LoadConfig ==
    /\ pc = "LOADING_CONFIG"
    /\ IF ConfigError(environ) # ""
       THEN /\ pc' = "CONFIG_ERROR"
            /\ exc' = ConfigError(environ)
            /\ UNCHANGED <<user_email, email_map>>
       ELSE /\ pc' = "FETCHING_ROWS"
            /\ user_email' = environ.USER_EMAIL
            /\ email_map' = LoadEmailMap(environ)
            /\ exc' = exc
    /\ UNCHANGED <<environ, records, smtp_client, idx, ics_content, recipients,
                   built, attempts, log>>

\* Lines 248, 98-103: the request succeeds and the body parses
FetchRows ==
    /\ pc = "FETCHING_ROWS"
    /\ records' \in Sheets
    /\ pc' = "CONNECTING"
    /\ UNCHANGED <<environ, user_email, email_map, smtp_client, idx, ics_content,
                   recipients, exc, built, attempts, log>>

\* Lines 98-99: requests.get or raise_for_status raises
FetchFails ==
    /\ pc = "FETCHING_ROWS"
    /\ pc' = "FETCH_ERROR"
    /\ exc' = "RequestException"
    /\ UNCHANGED <<environ, user_email, email_map, records, smtp_client, idx,
                   ics_content, recipients, built, attempts, log>>

\* Lines 250, 125-128
Connect ==
    /\ pc = "CONNECTING"
    /\ smtp_client' = "open"
    /\ idx' = 1
    /\ pc' = "NEXT_ROW"
    /\ UNCHANGED <<environ, user_email, email_map, records, ics_content,
                   recipients, exc, built, attempts, log>>

\* Lines 125-127: connecting, STARTTLS or login raises
ConnectFails ==
    /\ pc = "CONNECTING"
    /\ pc' = "CONNECT_ERROR"
    /\ exc' = "SMTPException"
    /\ UNCHANGED <<environ, user_email, email_map, records, smtp_client, idx,
                   ics_content, recipients, built, attempts, log>>

\* Lines 252-258: a row without date or name
SkipRow ==
    /\ pc = "NEXT_ROW"
    /\ idx <= Len(records)
    /\ MissingRequired(records[idx])
    /\ log' = Append(log, [row |-> idx, what |-> "missing required fields"])
    /\ idx' = idx + 1
    /\ UNCHANGED <<environ, pc, user_email, email_map, records, smtp_client,
                   ics_content, recipients, exc, built, attempts>>

\* Lines 252-269: the invite of a row with date and name; an exception of
\* build_ics_event is not handled and leaves main()
BuildRow ==
    /\ pc = "NEXT_ROW"
    /\ idx <= Len(records)
    /\ ~MissingRequired(records[idx])
    /\ LET row == records[idx]
           babysitter_email == DictGet(email_map, row.Oppas)
           ics == build_ics_event(row.Datum, row.Oppas, environ.SMTP_USERNAME,
                                  babysitter_email, user_email)
       IN  IF ics.raised # ""
           THEN /\ pc' = "ROW_ERROR"
                /\ exc' = ics.raised
                /\ UNCHANGED <<ics_content, built>>
           ELSE /\ pc' = "BUILT"
                /\ ics_content' = ics
                /\ built' = Append(built, idx)
                /\ exc' = exc
    /\ UNCHANGED <<environ, user_email, email_map, records, smtp_client, idx,
                   recipients, attempts, log>>

\* Lines 271-287: the recipients and the message; without recipients the row
\* is reported and left
PrepareMail ==
    /\ pc = "BUILT"
    /\ LET to == Recipients(DictGet(email_map, records[idx].Oppas), user_email)
       IN  IF to = <<>>
           THEN /\ log' = Append(log, [row |-> idx, what |-> "no recipients"])
                /\ idx' = idx + 1
                /\ pc' = "NEXT_ROW"
                /\ UNCHANGED recipients
           ELSE /\ recipients' = to
                /\ pc' = "DISPATCHING"
                /\ UNCHANGED <<log, idx>>
    /\ UNCHANGED <<environ, user_email, email_map, records, smtp_client,
                   ics_content, exc, built, attempts>>

Message(ok) ==
    [row |-> idx, To |-> recipients, ATTENDEE |-> ics_content.ATTENDEE,
     DTSTART |-> ics_content.DTSTART, delivered |-> ok]

\* Lines 289-291: sendmail returns
SendOk ==
    /\ pc = "DISPATCHING"
    /\ attempts' = Append(attempts, Message(TRUE))
    /\ log' = Append(log, [row |-> idx, what |-> "sent"])
    /\ idx' = idx + 1
    /\ pc' = "NEXT_ROW"
    /\ UNCHANGED <<environ, user_email, email_map, records, smtp_client,
                   ics_content, recipients, exc, built>>

\* SendFails without the handler of line 292: the exception leaves main()
SendFailsUncaught ==
    /\ pc = "DISPATCHING"
    /\ attempts' = Append(attempts, Message(FALSE))
    /\ pc' = "ROW_ERROR"
    /\ exc' = "SMTPException"
    /\ UNCHANGED <<environ, user_email, email_map, records, smtp_client, idx,
                   ics_content, recipients, built, log>>

\* SendFails that sends the same row again instead of moving on
SendFailsRetries ==
    /\ pc = "DISPATCHING"
    /\ attempts' = Append(attempts, Message(FALSE))
    /\ log' = Append(log, [row |-> idx, what |-> "failed to send"])
    /\ UNCHANGED <<environ, pc, user_email, email_map, records, smtp_client, idx,
                   ics_content, recipients, exc, built>>

\* Lines 289-293: sendmail raises; the handler prints and the loop goes on
SendFails ==
    /\ pc = "DISPATCHING"
    /\ attempts' = Append(attempts, Message(FALSE))
    /\ log' = Append(log, [row |-> idx, what |-> "failed to send"])
    /\ idx' = idx + 1
    /\ pc' = "NEXT_ROW"
    /\ UNCHANGED <<environ, user_email, email_map, records, smtp_client,
                   ics_content, recipients, exc, built>>

\* Line 295: after the last row
Quit ==
    /\ pc = "NEXT_ROW"
    /\ idx > Len(records)
    /\ smtp_client' = "closed"
    /\ pc' = "DONE"
    /\ UNCHANGED <<environ, user_email, email_map, records, idx, ics_content,
                   recipients, exc, built, attempts, log>>

Next ==
    \/ LoadConfig
    \/ FetchRows
    \/ FetchFails
    \/ Connect
    \/ ConnectFails
    \/ SkipRow
    \/ BuildRow
    \/ PrepareMail
    \/ SendOk
    \/ SendFails
    \/ Quit

Spec == Init /\ [][Next]_vars

\* ------------------------------------------- the row loop on one-row sheets
\* The builder's inputs drawn widely: every form of date cell over the days,
\* months and years below, every name, every loaded configuration.
Days   == {1, 3, 12, 13, 28, 29, 30, 31}
Months == {1, 2, 3, 4, 12, 13}
Years  == {2000, 2024, 2025, 2100, 9999}

DateCells ==
    {Absent, Empty, NotADate, DateCell("blank", 0, 0, 0)}
    \cup { DateCell("numeric", d, m, y) : d \in Days, m \in Months, y \in Years }
    \cup { DateCell("numeric", y, m, d) : d \in Days, m \in Months, y \in Years }
    \cup { DateCell("month_name", m, d, y) : d \in Days, m \in Months \cap 1..12, y \in Years }

LoadedEnvironments == { env \in Environments : ConfigError(env) = "" }

\* main() at line 252 with a sheet of one row
InitRow ==
    /\ environ \in LoadedEnvironments
    /\ pc = "NEXT_ROW"
    /\ user_email = environ.USER_EMAIL
    /\ email_map = LoadEmailMap(environ)
    /\ records \in { <<Row(c, n)>> : c \in DateCells, n \in {None, "", OpaPiet, OmaLisa} }
    /\ smtp_client = "open"
    /\ idx = 1
    /\ ics_content = NoEvent
    /\ recipients = <<>>
    /\ exc = ""
    /\ built = <<>>
    /\ attempts = <<>>
    /\ log = <<>>

NextRow ==
    \/ SkipRow
    \/ BuildRow
    \/ PrepareMail
    \/ SendOk
    \/ SendFails
    \/ Quit

RowSpec == InitRow /\ [][NextRow]_vars

\* ================================================================ properties
Rows        == 1..Len(records)
BuiltRows   == { built[i] : i \in 1..Len(built) }
AttemptRows == { attempts[i].row : i \in 1..Len(attempts) }
Logged(j, what) == \E i \in 1..Len(log) : log[i] = [row |-> j, what |-> what]

\* A row is behind the loop once the loop has moved past it
Passed(j) == j < idx

FieldAbsent(x) == x = None \/ x = ""
DateAbsent(row) == row.Datum.form = "absent" \/ row.Datum.form = "empty"
DateRejected(row) == row.Datum.form = "text" \/ row.Datum.form = "blank"

\* C1: a row whose event cannot be built (date or name absent or empty, or a
\* date the normalizer rejects) is skipped without aborting the run: the run
\* never ends at such a row.
C1_UnbuildableRowDoesNotAbort ==
    \A j \in Rows :
        (DateAbsent(records[j]) \/ FieldAbsent(records[j].Oppas) \/ DateRejected(records[j]))
            => ~(pc = "ROW_ERROR" /\ idx = j)

\* C2: once configuration is loaded, the rows are fetched and the session is
\* open, the run does not stop anywhere but in DONE, with every row visited
\* and the session released.
C2_RunEndsInDone ==
    smtp_client # "none" =>
        \/ ENABLED Next
        \/ pc = "DONE" /\ idx = Len(records) + 1 /\ smtp_client = "closed"

C4_FatalErrorBeforeAnyRow ==
    LET missing(x) == x = None \/ x = ""
        fatal == \/ missing(environ.CSV_URL)
                 \/ missing(environ.SMTP_USERNAME)
                 \/ missing(environ.SMTP_PASSWORD)
                 \/ environ.EMAIL_MAP.kind = "invalid"
        untouched == /\ built = <<>> /\ attempts = <<>> /\ log = <<>>
                     /\ idx = 0 /\ smtp_client = "none"
    IN  /\ fatal => untouched /\ pc \in {"LOADING_CONFIG", "CONFIG_ERROR"}
        /\ pc \in {"CONFIG_ERROR", "FETCH_ERROR"} => untouched /\ exc # ""

C4_Witness ==
    /\ pc = "CONFIG_ERROR"
    /\ environ.CSV_URL # None /\ environ.CSV_URL # ""
    /\ environ.EMAIL_MAP.kind = "object"
    /\ environ.SMTP_USERNAME = Sender
    /\ environ.SMTP_PASSWORD = ""

\* C5: a row whose date or name is absent or empty never yields an event: it
\* is never built and never sent, and once the loop has passed it the skip
\* has been reported.
C5_MissingFieldRowYieldsNothing ==
    \A j \in Rows :
        (DateAbsent(records[j]) \/ FieldAbsent(records[j].Oppas)) =>
            /\ j \notin BuiltRows
            /\ j \notin AttemptRows
            /\ ~(idx = j /\ pc \in {"BUILT", "DISPATCHING", "ROW_ERROR"})
            /\ Passed(j) => Logged(j, "missing required fields")

C5_Witness ==
    /\ pc = "DONE"
    /\ Len(records) = 3
    /\ records[1].Datum.form = "empty"
    /\ records[2].Oppas = None
    /\ 3 \in AttemptRows

\* C6: the attendee list of a built event holds exactly the non-empty
\* addresses among the caregiver's directory entry and the default recipient,
\* each once and never an empty or null one; a caregiver without a directory
\* entry does not make the build fail.
C6_AttendeesAreTheNonEmptyAddresses ==
    LET name     == records[idx].Oppas
        mapped   == IF name \in DOMAIN email_map THEN email_map[name] ELSE None
        expected == { x \in {mapped, user_email} : x # None /\ x # "" }
        got      == ics_content.ATTENDEE
    IN  /\ pc \in {"BUILT", "DISPATCHING"} =>
            /\ { got[i] : i \in 1..Len(got) } = expected
            /\ Len(got) = Cardinality(expected)
        /\ (pc = "ROW_ERROR" /\ name \notin DOMAIN email_map) =>
               records[idx].Datum # Slash24Mar

C6_Witness ==
    /\ pc = "BUILT"
    /\ records[idx].Oppas = OpaPiet
    /\ DictGet(email_map, OpaPiet) = OpaMail
    /\ user_email = OpaMail
    /\ ics_content.ATTENDEE = <<OpaMail>>

\* C7: a built row with neither a caregiver address nor a default recipient is
\* left without a send: the step after the build reports it, sends nothing,
\* raises nothing and moves to the next row.
C7_NoRecipientsSkipsDelivery ==
    [][ ( /\ pc = "BUILT"
          /\ FieldAbsent(DictGet(email_map, records[idx].Oppas))
          /\ FieldAbsent(user_email) ) =>
        ( /\ pc' = "NEXT_ROW"
          /\ idx' = idx + 1
          /\ attempts' = attempts
          /\ exc' = ""
          /\ log' = Append(log, [row |-> idx, what |-> "no recipients"]) )
      ]_vars

C7_Witness ==
    /\ pc = "DONE"
    /\ Len(records) = 2
    /\ built = <<1, 2>>
    /\ AttemptRows = {2}
    /\ Logged(1, "no recipients")

\* The proleptic Gregorian day number of year y, month m, day d
DaysBeforeYear(y) ==
    (y - 1) * 365 + ((y - 1) \div 4) - ((y - 1) \div 100) + ((y - 1) \div 400)
DaysBeforeMonth(y, m) ==
    <<0, 31, 59, 90, 120, 151, 181, 212, 243, 273, 304, 334>>[m]
    + (IF m > 2 /\ DaysBeforeYear(y + 1) - DaysBeforeYear(y) = 366 THEN 1 ELSE 0)
Ordinal(y, m, d) == DaysBeforeYear(y) + DaysBeforeMonth(y, m) + d

\* The eight digits YYYYMMDD name a day of the calendar
IsCalendarDay(n) ==
    LET y == n \div 10000
        m == (n \div 100) % 100
        d == n % 100
    IN  /\ y \in 1..9999 /\ m \in 1..12 /\ d >= 1
        /\ Ordinal(y, m, d) < (IF m = 12 THEN Ordinal(y + 1, 1, 1)
                                         ELSE Ordinal(y, m + 1, 1))
OrdinalOf(n) == Ordinal(n \div 10000, (n \div 100) % 100, n % 100)

\* C8: the end date of every built event is a calendar day, exactly one day
\* after its start date, whatever the form of the date cell.
C8_EndIsStartPlusOneDay ==
    pc \in {"BUILT", "DISPATCHING"} =>
        /\ IsCalendarDay(ics_content.DTSTART)
        /\ IsCalendarDay(ics_content.DTEND)
        /\ OrdinalOf(ics_content.DTEND) = OrdinalOf(ics_content.DTSTART) + 1

C8_Witness ==
    /\ pc = "BUILT"
    /\ records[1].Datum = DateCell("month_name", 12, 31, 2025)
    /\ ics_content.DTSTART = 20251231
    /\ ics_content.DTEND = 20260101

\* C9: rows are handled one at a time in source order: builds and sends are
\* recorded in increasing row order, sendmail is called at most once per row,
\* and every row the loop has passed was sent exactly when it was built and
\* has a recipient, so each send precedes the build of every later row.
C9_SequentialInSourceOrder ==
    LET hasRecipient(j) ==
            \/ ~FieldAbsent(DictGet(email_map, records[j].Oppas))
            \/ ~FieldAbsent(user_email)
    IN  /\ \A i \in 1..Len(attempts) - 1 : attempts[i].row < attempts[i + 1].row
        /\ \A i \in 1..Len(built) - 1 : built[i] < built[i + 1]
        /\ \A j \in AttemptRows \cup BuiltRows : j \in Rows /\ j <= idx
        /\ AttemptRows \subseteq BuiltRows
        /\ \A j \in Rows :
               Passed(j) => (j \in AttemptRows <=> (j \in BuiltRows /\ hasRecipient(j)))
        /\ \A j \in Rows : ~Passed(j) => j \notin AttemptRows

C9_Witness ==
    /\ pc = "DONE"
    /\ Len(records) = 3
    /\ built = <<1, 2, 3>>
    /\ Len(attempts) = 2
    /\ attempts[1].row = 1
    /\ attempts[2].row = 3

\* C10: the envelope recipients of every message handed to sendmail are the
\* ATTENDEE addresses of the invite it carries, in the same order, without
\* duplicates.
C10_RecipientsEqualAttendees ==
    /\ \A i \in 1..Len(attempts) :
           /\ attempts[i].To = attempts[i].ATTENDEE
           /\ \A k, l \in 1..Len(attempts[i].To) :
                  k # l => attempts[i].To[k] # attempts[i].To[l]
    /\ pc = "DISPATCHING" => recipients = ics_content.ATTENDEE

C10_Witness ==
    /\ Len(attempts) = 2
    /\ attempts[1].To = <<OpaMail, MeMail>>
    /\ attempts[2].To = <<MeMail>>
    /\ DictGet(email_map, records[attempts[2].row].Oppas) = ""

====
